---- MODULE Spec2Model ----
(***************************************************************************)
(* Model of the billing-metrics pipeline of cloud-cost-optimizer:          *)
(*   scripts/collect_billing_data.py the collector: cost, estimated-charge *)
(*                                   and budget metrics, and the snapshot  *)
(*                                   file it writes                        *)
(*   scripts/push_to_prometheus.py   the exposition formatter, the         *)
(*                                   Pushgateway client and its main()     *)
(* Text is modelled as a sequence of one-character strings, so that        *)
(* sanitizing, joining, splitting and the '#'-prefix filter are computed   *)
(* as the code computes them.                                              *)
(***************************************************************************)
EXTENDS Integers, Sequences, FiniteSets, TLC

VARIABLES
    entry,            \* which entry point this behaviour exercises
    pc,               \* position of the running entry point
    env_url,          \* os.getenv('PROMETHEUS_PUSHGATEWAY_URL'): None or text
    instance_name,    \* main's instance_name / the caller's `instance` argument
    snapshot,         \* content of data/billing_metrics.json
    metrics_data,     \* main's / the caller's metric list
    pusher_url,       \* PrometheusPusher.pushgateway_url (after rstrip)
    http,             \* every request handed to the session, with its outcome
    success,          \* main's local `success`
    i,                \* push_metrics_individually: loop index (0-based)
    success_count,    \* push_metrics_individually: success_count
    push_summary,     \* content written to data/push_summary.json by this run
    ret,              \* value returned by the entry point
    exit_code,        \* process exit status
    account_id,       \* AWSBillingCollector.account_id
    calls,            \* every AWS request of the collector, with its outcome
    cost_metrics,     \* collector main's cost_metrics
    cw_metrics,       \* collector main's cw_metrics
    budget_metrics,   \* collector main's budget_metrics
    all_metrics,      \* collector main's all_metrics
    billing_file      \* data/billing_metrics.json as the collector wrote it

\* the collector's variables
cvars == <<account_id, calls, cost_metrics, cw_metrics, budget_metrics,
           all_metrics, billing_file>>

\* the delivery script's variables
pvars == <<env_url, instance_name, snapshot, pusher_url, http, success, i,
           success_count, push_summary, ret, exit_code>>

vars == <<entry, pc, env_url, instance_name, snapshot, metrics_data, pusher_url,
          http, success, i, success_count, push_summary, ret, exit_code,
          account_id, calls, cost_metrics, cw_metrics, budget_metrics,
          all_metrics, billing_file>>

\* Python's None where a text is optional (no text is a one-element tuple of this kind)
None == <<"None">>
\* no exception was raised
NoException == "NoException"

-----------------------------------------------------------------------------
(* Bounds of the model *)

MaxMetrics == 3
\* longest label value of the label-escaping inputs
MaxValueLen == 2

-----------------------------------------------------------------------------
(* Text helpers: Python str operations on sequences of characters *)

RECURSIVE Cat(_)
\* ''.join(parts)
Cat(parts) == IF parts = <<>> THEN <<>> ELSE Head(parts) \o Cat(Tail(parts))

RECURSIVE Join(_, _)
\* sep.join(parts)
Join(parts, sep) ==
    IF parts = <<>> THEN <<>>
    ELSE IF Len(parts) = 1 THEN parts[1]
    ELSE parts[1] \o sep \o Join(Tail(parts), sep)

RECURSIVE SplitAcc(_, _, _)
SplitAcc(s, c, cur) ==
    IF s = <<>> THEN <<cur>>
    ELSE IF Head(s) = c THEN <<cur>> \o SplitAcc(Tail(s), c, <<>>)
    ELSE SplitAcc(Tail(s), c, Append(cur, Head(s)))

\* s.split(c) for a one-character separator: always at least one piece
Split(s, c) == SplitAcc(s, c, <<>>)

\* s.startswith(p)
StartsWith(s, p) == Len(s) >= Len(p) /\ SubSeq(s, 1, Len(p)) = p

RECURSIVE Replace(_, _, _)
\* s.replace(c, r) for a one-character c
Replace(s, c, r) ==
    IF s = <<>> THEN <<>>
    ELSE (IF Head(s) = c THEN r ELSE <<Head(s)>>) \o Replace(Tail(s), c, r)

RECURSIVE RStrip(_, _)
\* s.rstrip(c)
RStrip(s, c) ==
    IF s # <<>> /\ s[Len(s)] = c THEN RStrip(SubSeq(s, 1, Len(s) - 1), c) ELSE s

DigitChar == <<"0", "1", "2", "3", "4", "5", "6", "7", "8", "9">>

RECURSIVE NatStr(_)
\* f'{value}' for a whole, non-negative amount
NatStr(n) ==
    IF n < 10 THEN <<DigitChar[n + 1]>>
    ELSE NatStr(n \div 10) \o <<DigitChar[(n % 10) + 1]>>

NL == "\n"
Letters ==
    {"a", "b", "c", "d", "e", "f", "g", "h", "i", "j", "k", "l", "m",
     "n", "o", "p", "q", "r", "s", "t", "u", "v", "w", "x", "y", "z",
     "A", "B", "C", "D", "E", "F", "G", "H", "I", "J", "K", "L", "M",
     "N", "O", "P", "Q", "R", "S", "T", "U", "V", "W", "X", "Y", "Z"}
Digits == {"0", "1", "2", "3", "4", "5", "6", "7", "8", "9"}

\* the character class [a-zA-Z0-9_:]
MetricNameChars == Letters \cup Digits \cup {"_", ":"}
\* the character class [a-zA-Z0-9_]
LabelNameChars == Letters \cup Digits \cup {"_"}

-----------------------------------------------------------------------------
(* PrometheusMetricFormatter *)

\* re.sub(r'[^a-zA-Z0-9_:]', '_', name)
sanitize_metric_name(name) ==
    [k \in 1..Len(name) |-> IF name[k] \in MetricNameChars THEN name[k] ELSE "_"]

\* re.sub(r'[^a-zA-Z0-9_]', '_', name)
sanitize_label_name(name) ==
    [k \in 1..Len(name) |-> IF name[k] \in LabelNameChars THEN name[k] ELSE "_"]

\* the two replacements in the other order: quotes first, then backslashes
sanitize_label_value_quotes_first(value) ==
    Replace(Replace(value, "\"", <<"\\", "\"">>), "\\", <<"\\", "\\">>)

\* str(value).replace('\\', '\\\\').replace('"', '\\"')
sanitize_label_value(value) ==
    Replace(Replace(value, "\\", <<"\\", "\\">>), "\"", <<"\\", "\"">>)

HelpPrefix == <<"#", " ", "H", "E", "L", "P", " ">>
TypePrefix == <<"#", " ", "T", "Y", "P", "E", " ">>
GaugeSuffix == <<" ", "g", "a", "u", "g", "e">>

\* f'# HELP {name} {help_text}'
HelpLine(name, help_text) == HelpPrefix \o name \o <<" ">> \o help_text
\* f'# TYPE {name} gauge'
TypeLine(name) == TypePrefix \o name \o GaugeSuffix

\* f'{clean_name}="{clean_value}"' for one item of labels.items()
LabelPair(l) ==
    sanitize_label_name(l.k) \o <<"=", "\"">> \o sanitize_label_value(l.v) \o <<"\"">>

\* ','.join(label_pairs), wrapped in braces when not empty
LabelsStr(labels) ==
    LET label_pairs == [k \in 1..Len(labels) |-> LabelPair(labels[k])]
        labels_str  == Join(label_pairs, <<",">>)
    IN  IF labels_str # <<>> THEN <<"{">> \o labels_str \o <<"}">> ELSE labels_str

\* format_metric_for_pushgateway(metric_data): the text of one metric
format_metric_for_pushgateway(metric_data) ==
    LET name  == sanitize_metric_name(metric_data.name)
        head  == IF metric_data.help_text # <<>>
                 THEN <<HelpLine(name, metric_data.help_text), TypeLine(name)>>
                 ELSE <<>>
        lines == Append(head,
                        name \o LabelsStr(metric_data.labels) \o <<" ">>
                             \o NatStr(metric_data.value))
    IN  Join(lines, <<NL>>)

-----------------------------------------------------------------------------
(* Outcomes of one call on the requests session *)

\* the call returned a response with this status code
Response(status) == [exc |-> NoException, status |-> status]
\* the call raised this exception
Raises(e) == [exc |-> e, status |-> 0]

\* One request handed to the session, and what came back
Request(method, url, body, outcome) ==
    [method |-> method, url |-> url, body |-> body, outcome |-> outcome]

\* Python truthiness of an optional string
Truthy(x) == x # None /\ x # <<>>

-----------------------------------------------------------------------------
(* PrometheusPusher *)

\* __init__: self.pushgateway_url = pushgateway_url.rstrip('/')
PusherInit(pushgateway_url) == RStrip(pushgateway_url, "/")

\* 'aws-billing-collector', the default job name
job_name ==
    <<"a", "w", "s", "-", "b", "i", "l", "l", "i", "n", "g", "-",
      "c", "o", "l", "l", "e", "c", "t", "o", "r">>

RECURSIVE GroupNames(_, _)
\* keys of grouped_metrics in insertion order: metric names by first occurrence
GroupNames(ms, seen) ==
    IF ms = <<>> THEN <<>>
    ELSE IF Head(ms).name \in seen THEN GroupNames(Tail(ms), seen)
    ELSE <<Head(ms).name>> \o GroupNames(Tail(ms), seen \cup {Head(ms).name})

\* grouped_metrics[metric_name]: the instances of a name, in input order
GroupOf(ms, metric_name) == SelectSeq(ms, LAMBDA m : m.name = metric_name)

\* the lines one instance contributes: its formatted text without '#' lines
InstanceLines(metric) ==
    SelectSeq(Split(format_metric_for_pushgateway(metric), NL),
              LAMBDA line : ~StartsWith(line, <<"#">>))

\* the lines of one group: HELP and TYPE from the first instance, then the data
GroupLines(ms, metric_name) ==
    LET metrics_list == GroupOf(ms, metric_name)
        first_metric == metrics_list[1]
        head == IF first_metric.help_text # <<>>
                THEN <<HelpLine(metric_name, first_metric.help_text),
                       TypeLine(metric_name)>>
                ELSE <<>>
    IN  head \o Cat([k \in 1..Len(metrics_list) |-> InstanceLines(metrics_list[k])])

\* the groups rendered last-seen name first
FormattedMetricsLastFirst(ms) ==
    LET names == GroupNames(ms, {})
    IN  Cat([k \in 1..Len(names) |-> GroupLines(ms, names[Len(names) + 1 - k])])

\* formatted_metrics: the lines of every group, groups in insertion order
FormattedMetrics(ms) ==
    LET names == GroupNames(ms, {})
    IN  Cat([k \in 1..Len(names) |-> GroupLines(ms, names[k])])

\* metrics_payload = '\n'.join(formatted_metrics)
MetricsPayload(ms) == Join(FormattedMetrics(ms), <<NL>>)

\* '/'.join(url_parts): {gateway}/metrics/job/{job}[/instance/{instance}]
JobUrl(url, instance) ==
    LET url_parts == <<url, <<"m", "e", "t", "r", "i", "c", "s">>,
                       <<"j", "o", "b">>, job_name>>
                     \o (IF Truthy(instance)
                         THEN << <<"i", "n", "s", "t", "a", "n", "c", "e">>, instance>>
                         ELSE <<>>)
    IN  Join(url_parts, <<"/">>)

\* push_metrics without its guard for an empty list: it posts an empty payload
push_metrics_unguarded(url, ms, instance, outcome) ==
    [ret  |-> outcome.exc = NoException /\ outcome.status = 200,
     reqs |-> <<Request("POST", JobUrl(url, instance), MetricsPayload(ms),
                        outcome)>>]

\* push_metrics(metrics_data, instance): the value returned and the requests made,
\* when the session answers the POST with `outcome`
push_metrics(url, ms, instance, outcome) ==
    IF ms = <<>> THEN [ret |-> TRUE, reqs |-> <<>>]
    ELSE [ret  |-> outcome.exc = NoException /\ outcome.status = 200,
          reqs |-> <<Request("POST", JobUrl(url, instance), MetricsPayload(ms),
                             outcome)>>]

\* delete_metrics taking any 2xx answer of the gateway as a success
delete_metrics_any_2xx(url, instance, outcome) ==
    [ret  |-> outcome.exc = NoException /\ outcome.status \in 200..299,
     reqs |-> <<Request("DELETE", JobUrl(url, instance), <<>>, outcome)>>]

\* delete_metrics(instance): one DELETE; True only for a 202
delete_metrics(url, instance, outcome) ==
    [ret  |-> outcome.exc = NoException /\ outcome.status = 202,
     reqs |-> <<Request("DELETE", JobUrl(url, instance), <<>>, outcome)>>]

\* urljoin(base, '/-/healthy') for a base that carries no path of its own
urljoin(base, path) == base \o path

\* health_check()
health_check(url, outcome) ==
    [ret  |-> outcome.exc = NoException /\ outcome.status = 200,
     reqs |-> <<Request("GET",
                        urljoin(url, <<"/", "-", "/", "h", "e", "a", "l", "t", "h", "y">>),
                        <<>>, outcome)>>]

\* load_metrics_from_file(): the list in the file, [] when the file is missing,
\* is not JSON, or holds a JSON value len() refuses
load_metrics_from_file(file) ==
    IF file.kind = "list" THEN file.data ELSE <<>>

-----------------------------------------------------------------------------
(* Inputs *)

Metric(name, value, labels, help_text) ==
    [name |-> name, value |-> value, labels |-> labels, help_text |-> help_text]

Label(k, v) == [k |-> k, v |-> v]

RECURSIVE SeqsUpTo(_, _)
\* every sequence over S of length at most n
SeqsUpTo(S, n) ==
    IF n = 0 THEN {<<>>}
    ELSE LET shorter == SeqsUpTo(S, n - 1)
         IN  shorter \cup {Append(q, x) : q \in {r \in shorter : Len(r) = n - 1}, x \in S}

\* metric names: valid, invalid, and pairs that sanitize to the same text
MetricNames == {<<"a">>, <<"a", "_">>, <<"a", "-">>, <<".", "a">>}

HelpTexts == {<<>>, <<"h">>}

\* metrics handed to the client's methods directly
ApiMetrics ==
    {Metric(n, 1, <<>>, h) : n \in MetricNames, h \in HelpTexts}
    \cup {Metric(<<"a">>, 12, <<Label(<<"s", ".">>, <<"x">>)>>, h) : h \in HelpTexts}

\* label values with double quotes and backslashes in every position
LabelValues == SeqsUpTo({"x", "\\", "\""}, MaxValueLen)

\* single metrics with one or two labels, handed to push_metrics on their own
LabelMetrics ==
    {Metric(<<"a">>, 12, <<Label(<<"s", ".">>, v)>>, <<>>) : v \in LabelValues}
    \cup {Metric(<<"a">>, 12, <<Label(<<"s">>, v), Label(<<"t">>, w)>>, <<"h">>) :
              v \in LabelValues, w \in LabelValues}

\* metrics a snapshot file holds in the delivery runs
RunMetrics ==
    {Metric(<<"a">>, 1, <<>>, <<"h">>),
     Metric(<<"b", "-">>, 2, <<Label(<<"s">>, <<"x">>)>>, <<>>)}

\* data/billing_metrics.json: absent, not JSON, a JSON scalar, or a metric list
Snapshots ==
    {[kind |-> k, data |-> <<>>] : k \in {"missing", "invalid_json", "not_sized"}}
    \cup {[kind |-> "list", data |-> ms] : ms \in SeqsUpTo(RunMetrics, MaxMetrics)}

\* (PROMETHEUS_PUSHGATEWAY_URL, PROMETHEUS_INSTANCE_NAME) as main reads them
github_actions == <<"g", "i", "t", "h", "u", "b", "-", "a", "c", "t", "i", "o", "n", "s">>
MainConfigs ==
    {<<None, github_actions>>, <<<<>>, github_actions>>,
     <<<<"g", "w">>, <<>>>>, <<<<"g", "w", "/">>, github_actions>>}

\* (pushgateway_url, instance) of a direct call
ApiConfigs == {<<<<"g", "w">>, None>>, <<<<"g", "w", "/">>, <<"i">>>>}

PostOutcomes ==
    {Response(200), Response(500), Raises("Timeout"), Raises("ConnectionError")}
\* what the POST of one metric of the fallback loop meets
IndividualOutcomes == {Response(200), Response(500), Raises("Timeout")}
GetOutcomes == {Response(200), Response(500), Raises("ConnectionError")}
DeleteOutcomes == {Response(202), Response(200), Response(500), Raises("Timeout")}

\* no snapshot has been written
NoFile == [kind |-> "missing", data |-> <<>>]

\* the collector has not run
CollectorIdle ==
    /\ account_id = <<>>
    /\ calls = <<>>
    /\ cost_metrics = <<>>
    /\ cw_metrics = <<>>
    /\ budget_metrics = <<>>
    /\ all_metrics = <<>>
    /\ billing_file = NoFile

NoSummary == [status |-> "none"]

-----------------------------------------------------------------------------
(* main() of push_to_prometheus.py, one step per blocking call *)

\* the summary with the count of individual successes as total
SummaryCountsSuccesses ==
    [timestamp |-> "now", total_metrics |-> success_count,
     pushgateway_url |-> env_url, job_name |-> job_name,
     instance_name |-> instance_name, status |-> "success"]

\* the summary main writes after a successful push
Summary ==
    [timestamp |-> "now", total_metrics |-> Len(metrics_data),
     pushgateway_url |-> env_url, job_name |-> job_name,
     instance_name |-> instance_name, status |-> "success"]

\* the fallback succeeds only if every individual push did
IndividualResultAll(count) == count = Len(metrics_data)

\* the fallback succeeds whatever the count (>= for >)
IndividualResultNonNegative(count) == count >= 0

\* return success_count > 0, the result of push_metrics_individually
IndividualResult(count) == count > 0

InitMain ==
    /\ entry = "main"
    /\ pc = "main"
    /\ \E cfg \in MainConfigs : env_url = cfg[1] /\ instance_name = cfg[2]
    /\ snapshot \in Snapshots
    /\ metrics_data = <<>>
    /\ pusher_url = None
    /\ http = <<>>
    /\ success = FALSE
    /\ i = 0
    /\ success_count = 0
    /\ push_summary = NoSummary
    /\ ret = FALSE
    /\ exit_code = -1
    /\ CollectorIdle

\* main without its check of the gateway URL
MainConfigUnchecked ==
    /\ pc = "main"
    /\ pc' = "load"
    /\ UNCHANGED <<cvars, entry, env_url, instance_name, snapshot, metrics_data, pusher_url,
                   http, success, i, success_count, push_summary, ret, exit_code>>

\* read the configuration; without a gateway URL return False at once
MainConfig ==
    /\ pc = "main"
    /\ IF ~Truthy(env_url)
       THEN pc' = "exit" /\ ret' = FALSE
       ELSE pc' = "load" /\ UNCHANGED ret
    /\ UNCHANGED <<cvars, entry, env_url, instance_name, snapshot, metrics_data, pusher_url,
                   http, success, i, success_count, push_summary, exit_code>>

\* main without its check for an empty list: it goes on to push
LoadMetricsProceeds ==
    /\ pc = "load"
    /\ metrics_data' = load_metrics_from_file(snapshot)
    /\ pc' = "health"
    /\ pusher_url' = PusherInit(env_url)
    /\ UNCHANGED <<cvars, entry, env_url, instance_name, snapshot, http, success, i,
                   success_count, push_summary, ret, exit_code>>

\* load the snapshot; return False when it yields nothing, else build the pusher
LoadMetrics ==
    /\ pc = "load"
    /\ metrics_data' = load_metrics_from_file(snapshot)
    /\ IF metrics_data' = <<>>
       THEN pc' = "exit" /\ ret' = FALSE /\ UNCHANGED pusher_url
       ELSE pc' = "health" /\ pusher_url' = PusherInit(env_url) /\ UNCHANGED ret
    /\ UNCHANGED <<cvars, entry, env_url, instance_name, snapshot, http, success, i,
                   success_count, push_summary, exit_code>>

\* a health check whose failure ends the run
HealthCheckFatal ==
    /\ pc = "health"
    /\ \E o \in GetOutcomes :
          LET r == health_check(pusher_url, o)
          IN  /\ http' = http \o r.reqs
              /\ IF r.ret
                 THEN pc' = "batch" /\ UNCHANGED ret
                 ELSE pc' = "exit" /\ ret' = FALSE
    /\ UNCHANGED <<cvars, entry, env_url, instance_name, snapshot, metrics_data, pusher_url,
                   success, i, success_count, push_summary, exit_code>>

\* pusher.health_check(): its result is only logged
HealthCheck ==
    /\ pc = "health"
    /\ \E o \in GetOutcomes :
          http' = http \o health_check(pusher_url, o).reqs
    /\ pc' = "batch"
    /\ UNCHANGED <<cvars, entry, env_url, instance_name, snapshot, metrics_data, pusher_url,
                   success, i, success_count, push_summary, ret, exit_code>>

\* success = pusher.push_metrics(metrics_data, instance_name)
BatchPush ==
    /\ pc = "batch"
    /\ \E o \in PostOutcomes :
          LET r == push_metrics(pusher_url, metrics_data, instance_name, o)
          IN  /\ http' = http \o r.reqs
              /\ success' = r.ret
              /\ pc' = IF r.ret THEN "summary" ELSE "individual"
    /\ i' = 0
    /\ success_count' = 0
    /\ UNCHANGED <<cvars, entry, env_url, instance_name, snapshot, metrics_data, pusher_url,
                   push_summary, ret, exit_code>>

\* the fallback loop leaving at the first failed push (break for continue)
IndividualPushBreaks ==
    /\ pc = "individual"
    /\ i < Len(metrics_data)
    /\ \E o \in IndividualOutcomes :
          LET r == push_metrics(pusher_url, <<metrics_data[i + 1]>>, instance_name, o)
          IN  /\ http' = http \o r.reqs
              /\ success_count' = IF r.ret THEN success_count + 1 ELSE success_count
              /\ i' = IF r.ret THEN i + 1 ELSE Len(metrics_data)
    /\ UNCHANGED <<cvars, entry, pc, env_url, instance_name, snapshot, metrics_data, pusher_url,
                   success, push_summary, ret, exit_code>>

\* one turn of the loop of push_metrics_individually: push_metrics([metric])
IndividualPush ==
    /\ pc = "individual"
    /\ i < Len(metrics_data)
    /\ \E o \in IndividualOutcomes :
          LET r == push_metrics(pusher_url, <<metrics_data[i + 1]>>, instance_name, o)
          IN  /\ http' = http \o r.reqs
              /\ success_count' = IF r.ret THEN success_count + 1 ELSE success_count
    /\ i' = i + 1
    /\ UNCHANGED <<cvars, entry, pc, env_url, instance_name, snapshot, metrics_data, pusher_url,
                   success, push_summary, ret, exit_code>>

\* the loop is over: push_metrics_individually returns, main takes its result
IndividualReturn ==
    /\ pc = "individual"
    /\ i = Len(metrics_data)
    /\ success' = IndividualResult(success_count)
    /\ IF success'
       THEN pc' = "summary" /\ UNCHANGED ret
       ELSE pc' = "exit" /\ ret' = FALSE
    /\ UNCHANGED <<cvars, entry, env_url, instance_name, snapshot, metrics_data, pusher_url,
                   http, i, success_count, push_summary, exit_code>>

\* success: write data/push_summary.json and return True; an error of the
\* write is caught by main's handler, which returns False
SaveSummary ==
    /\ pc = "summary"
    /\ \E written \in BOOLEAN :
          IF written
          THEN push_summary' = Summary /\ ret' = TRUE
          ELSE ret' = FALSE /\ UNCHANGED push_summary
    /\ pc' = "exit"
    /\ UNCHANGED <<cvars, entry, env_url, instance_name, snapshot, metrics_data, pusher_url,
                   http, success, i, success_count, exit_code>>

\* exit(0 if success else 1)
Exit ==
    /\ pc = "exit"
    /\ exit_code' = IF ret THEN 0 ELSE 1
    /\ pc' = "done"
    /\ UNCHANGED <<cvars, entry, env_url, instance_name, snapshot, metrics_data, pusher_url,
                   http, success, i, success_count, push_summary, ret>>

Next ==
    \/ MainConfig
    \/ LoadMetrics
    \/ HealthCheck
    \/ BatchPush
    \/ IndividualPush
    \/ IndividualReturn
    \/ SaveSummary
    \/ Exit

Spec == InitMain /\ [][Next]_vars

-----------------------------------------------------------------------------
(* Direct calls of the client's methods *)

InitApi ==
    /\ entry \in {"push_metrics", "delete_metrics", "health_check"}
    /\ pc = "call"
    /\ \E cfg \in ApiConfigs :
          /\ env_url = cfg[1]
          /\ pusher_url = PusherInit(cfg[1])
          /\ instance_name = cfg[2]
    /\ snapshot = [kind |-> "missing", data |-> <<>>]
    /\ IF entry = "push_metrics"
       THEN metrics_data \in SeqsUpTo(ApiMetrics, MaxMetrics)
                               \cup {<<m>> : m \in LabelMetrics}
       ELSE metrics_data = <<>>
    /\ http = <<>>
    /\ success = FALSE
    /\ i = 0
    /\ success_count = 0
    /\ push_summary = NoSummary
    /\ ret = FALSE
    /\ exit_code = -1
    /\ CollectorIdle

\* pusher.push_metrics(metrics_data, instance)
CallPushMetrics ==
    /\ entry = "push_metrics"
    /\ pc = "call"
    /\ \E o \in PostOutcomes :
          LET r == push_metrics(pusher_url, metrics_data, instance_name, o)
          IN  http' = http \o r.reqs /\ ret' = r.ret
    /\ pc' = "returned"
    /\ UNCHANGED <<cvars, entry, env_url, instance_name, snapshot, metrics_data, pusher_url,
                   success, i, success_count, push_summary, exit_code>>

\* pusher.delete_metrics(instance)
CallDeleteMetrics ==
    /\ entry = "delete_metrics"
    /\ pc = "call"
    /\ \E o \in DeleteOutcomes :
          LET r == delete_metrics(pusher_url, instance_name, o)
          IN  http' = http \o r.reqs /\ ret' = r.ret
    /\ pc' = "returned"
    /\ UNCHANGED <<cvars, entry, env_url, instance_name, snapshot, metrics_data, pusher_url,
                   success, i, success_count, push_summary, exit_code>>

\* pusher.health_check()
CallHealthCheck ==
    /\ entry = "health_check"
    /\ pc = "call"
    /\ \E o \in GetOutcomes :
          LET r == health_check(pusher_url, o)
          IN  http' = http \o r.reqs /\ ret' = r.ret
    /\ pc' = "returned"
    /\ UNCHANGED <<cvars, entry, env_url, instance_name, snapshot, metrics_data, pusher_url,
                   success, i, success_count, push_summary, exit_code>>

NextApi ==
    \/ CallPushMetrics
    \/ CallDeleteMetrics
    \/ CallHealthCheck

SpecApi == InitApi /\ [][NextApi]_vars

-----------------------------------------------------------------------------
(* Vocabulary of the properties *)

\* the POST requests made so far, in order
Posts == SelectSeq(http, LAMBDA r : r.method = "POST")

\* the request was answered with HTTP 200
Ok(r) == r.outcome = Response(200)

\* a delivery run that loaded a non-empty metric sequence
DeliveryRun == entry = "main" /\ metrics_data # <<>>

\* main is past its batch push
PastBatch == pc \in {"individual", "summary", "exit", "done"}

\* main has finished pushing (batch, and fallback if any)
PushingOver == pc \in {"summary", "exit", "done"}

\* how many of the individual POSTs (every POST after the first) returned 200
IndividualOk ==
    LET posts == Posts
    IN  Cardinality({k \in 2..Len(posts) : Ok(posts[k])})

-----------------------------------------------------------------------------
(* C1 *)

\* C1: in a delivery run over N >= 1 metrics the first POST carries the whole
\* batch; further POSTs exist only if the batch POST did not return 200; they
\* carry the input metrics one by one in input order, and once pushing is over
\* after a failed batch there are exactly N of them, whatever each returned.
C1_BatchThenOnePostPerMetric ==
    DeliveryRun =>
        LET N     == Len(metrics_data)
            posts == Posts
        IN  /\ pc \in {"health", "batch"} => posts = <<>>
            /\ PastBatch =>
                  /\ Len(posts) >= 1
                  /\ posts[1].body = MetricsPayload(metrics_data)
            /\ Len(posts) > 1 => ~Ok(posts[1])
            /\ Len(posts) <= N + 1
            /\ \A k \in 2..Len(posts) :
                  posts[k].body = MetricsPayload(<<metrics_data[k - 1]>>)
            /\ PushingOver =>
                  Len(posts) = IF Ok(posts[1]) THEN 1 ELSE N + 1

\* a finished run of three metrics whose batch failed, whose first individual
\* push failed and whose later ones were still made
C1_Witness ==
    /\ DeliveryRun
    /\ pc = "done"
    /\ Len(metrics_data) = 3
    /\ metrics_data[1] # metrics_data[2]
    /\ Len(Posts) = 4
    /\ ~Ok(Posts[2])
    /\ Ok(Posts[4])

-----------------------------------------------------------------------------
(* C2 *)

\* C2: after a failed batch push, the fallback's result is success exactly if
\* at least one individual push returned 200, and its success count is the
\* number of individual pushes that returned 200.
C2_FallbackSucceedsIffOneOk ==
    (DeliveryRun /\ PastBatch /\ ~Ok(Posts[1])) =>
        LET ok == IndividualOk
        IN  /\ success_count = ok
            /\ PushingOver => success = (ok >= 1)

\* a finished fallback in which one of three individual pushes returned 200
C2_Witness ==
    /\ DeliveryRun
    /\ pc = "done"
    /\ ~Ok(Posts[1])
    /\ Len(metrics_data) = 3
    /\ IndividualOk = 1
    /\ success

-----------------------------------------------------------------------------
(* C3 *)

\* C3: push_metrics on an empty sequence returns True and makes no request.
C3_EmptyPushIsNoOp ==
    (entry = "push_metrics" /\ pc = "returned" /\ metrics_data = <<>>) =>
        ret = TRUE /\ http = <<>>

\* push_metrics has returned from a call with an empty sequence
C3_Witness ==
    entry = "push_metrics" /\ pc = "returned" /\ metrics_data = <<>>

-----------------------------------------------------------------------------
(* C4 *)

\* the snapshot file is missing or does not hold a loadable JSON list
BadSnapshot == snapshot.kind \in {"missing", "invalid_json", "not_sized"}

\* C4 as stated: with a missing or malformed snapshot the run makes no HTTP
\* request and reports success.
C4_Original ==
    (entry = "main" /\ pc = "done" /\ Truthy(env_url) /\ BadSnapshot) =>
        metrics_data = <<>> /\ http = <<>> /\ ret = TRUE /\ exit_code = 0

\* C4 (amended): with a missing or malformed snapshot, loading yields the empty
\* sequence and the run makes no HTTP request, writes no run summary and
\* reports failure (False, exit status 1).
C4_BadSnapshotFailsQuietly ==
    (entry = "main" /\ Truthy(env_url) /\ BadSnapshot) =>
        /\ metrics_data = <<>>
        /\ http = <<>>
        /\ push_summary = NoSummary
        /\ pc \in {"exit", "done"} => ret = FALSE
        /\ pc = "done" => exit_code = 1

\* a finished run, gateway configured, whose snapshot file was not JSON
C4_Witness ==
    /\ entry = "main"
    /\ pc = "done"
    /\ Truthy(env_url)
    /\ snapshot.kind = "invalid_json"

-----------------------------------------------------------------------------
(* C5 *)

\* the summary file could not be written: the push succeeded, main returned False
WriteFailed == success /\ ~ret

\* C5 as stated: every finished delivery run (no write error) has persisted a
\* summary whose status is the terminal state it reached.
C5_Original ==
    (DeliveryRun /\ pc = "done" /\ ~WriteFailed) =>
        /\ push_summary # NoSummary
        /\ push_summary.status = IF success THEN "success" ELSE "failed"

\* C5 (amended): a run summary is persisted only by a run that ends in
\* Succeeded; it holds the timestamp, the total metric count, the gateway URL,
\* the job and instance names and the status "success"; every run that returns
\* True has persisted it, and a run that ends in Failed persists none.
C5_SummaryOnlyOnSuccess ==
    entry = "main" =>
        /\ push_summary # NoSummary =>
              /\ success
              /\ push_summary =
                    [timestamp |-> "now", total_metrics |-> Len(metrics_data),
                     pushgateway_url |-> env_url, job_name |-> job_name,
                     instance_name |-> instance_name, status |-> "success"]
        /\ (pc \in {"exit", "done"} /\ ret) => push_summary # NoSummary
        /\ (pc \in {"exit", "done"} /\ ~success) => push_summary = NoSummary

\* a finished run of two metrics that ended in Succeeded through the fallback
\* and wrote its summary
C5_Witness ==
    /\ DeliveryRun
    /\ pc = "done"
    /\ Len(metrics_data) = 2
    /\ Len(Posts) = 3
    /\ success
    /\ push_summary # NoSummary

-----------------------------------------------------------------------------
(* C6 *)

\* the pushes of the run gave success: the batch, or one individual push
PushesSucceeded == \E k \in 1..Len(http) : http[k].method = "POST" /\ Ok(http[k])

\* C6: with a gateway URL and a non-empty snapshot, the first request is the
\* health check and the second is the batch POST whatever the health check
\* returned, and the terminal status is decided by the POSTs alone.
C6_HealthCheckIsAdvisory ==
    DeliveryRun =>
        /\ pc # "health" =>
              /\ Len(http) >= 1
              /\ http[1].method = "GET"
        /\ PastBatch =>
              /\ Len(http) >= 2
              /\ http[2].method = "POST"
              /\ http[2] = Posts[1]
        /\ PushingOver => success = PushesSucceeded
        /\ pc = "done" => (ret => PushesSucceeded)

\* a run that returned True although its health check raised
C6_Witness ==
    /\ DeliveryRun
    /\ pc = "done"
    /\ http[1].outcome = Raises("ConnectionError")
    /\ ret

-----------------------------------------------------------------------------
(* C7 *)

\* C7: when the batch push and every individual push failed (non-200, timeout
\* or connection error), main returns False through its return statement and
\* the process exits with status 1.
C7_AllPushesFailedIsFailure ==
    (DeliveryRun /\ pc = "done" /\ ~PushesSucceeded) =>
        /\ Len(Posts) = Len(metrics_data) + 1
        /\ ret = FALSE
        /\ exit_code = 1

\* a finished run whose three POSTs failed in the three different ways
C7_Witness ==
    /\ DeliveryRun
    /\ pc = "done"
    /\ Len(Posts) = 3
    /\ Posts[1].outcome = Raises("ConnectionError")
    /\ Posts[2].outcome = Raises("Timeout")
    /\ Posts[3].outcome = Response(500)

-----------------------------------------------------------------------------
(* C8 *)

\* C8: without a gateway URL main returns False and exits with status 1, having
\* made no request of any kind and written no run summary.
C8_NoGatewayUrlFails ==
    (entry = "main" /\ ~Truthy(env_url)) =>
        /\ http = <<>>
        /\ push_summary = NoSummary
        /\ pc \in {"exit", "done"} => ret = FALSE
        /\ pc = "done" => exit_code = 1

\* a finished run whose gateway URL was not set while a snapshot was there
C8_Witness ==
    /\ entry = "main"
    /\ pc = "done"
    /\ env_url = None
    /\ snapshot.kind = "list"
    /\ snapshot.data # <<>>

-----------------------------------------------------------------------------
(* Reading a payload back: its lines and the metric name each line carries *)

RECURSIVE TakeUntil(_, _)
\* the prefix of s before its first character in stops
TakeUntil(s, stops) ==
    IF s = <<>> \/ Head(s) \in stops THEN <<>>
    ELSE <<Head(s)>> \o TakeUntil(Tail(s), stops)

IsHelp(line) == StartsWith(line, HelpPrefix)
IsType(line) == StartsWith(line, TypePrefix)
IsData(line) == ~StartsWith(line, <<"#">>)

\* the metric name of a line: after '# HELP ' or '# TYPE ', or at its start
LineName(line) ==
    IF IsHelp(line) \/ IsType(line)
    THEN TakeUntil(SubSeq(line, Len(HelpPrefix) + 1, Len(line)), {" "})
    ELSE TakeUntil(line, {"{", " "})

\* push_metrics has returned from a call that posted a payload
Pushed == entry = "push_metrics" /\ pc = "returned" /\ metrics_data # <<>>

\* no name of the input needs sanitizing
CleanNames ==
    \A k \in 1..Len(metrics_data) :
        sanitize_metric_name(metrics_data[k].name) = metrics_data[k].name

-----------------------------------------------------------------------------
(* C9 *)

\* C9 as stated, for inputs whose names need no sanitizing: a name with help
\* text on any of its instances has exactly one HELP and one TYPE line, both
\* before every data line of the name; a name without help text has neither.
C9_HelpTypeOncePerName ==
    (Pushed /\ CleanNames) =>
        LET lines == Split(http[1].body, NL)
            idx   == 1..Len(lines)
        IN  \A n \in {metrics_data[k].name : k \in 1..Len(metrics_data)} :
               LET helps == {k \in idx : IsHelp(lines[k]) /\ LineName(lines[k]) = n}
                   types == {k \in idx : lines[k] = TypeLine(n)}
                   datas == {k \in idx : IsData(lines[k]) /\ LineName(lines[k]) = n}
                   some_help == \E k \in 1..Len(metrics_data) :
                                   /\ metrics_data[k].name = n
                                   /\ metrics_data[k].help_text # <<>>
               IN  IF some_help
                   THEN /\ Cardinality(helps) = 1
                        /\ Cardinality(types) = 1
                        /\ \A h \in helps \cup types : \A d \in datas : h < d
                   ELSE helps = {} /\ types = {}

-----------------------------------------------------------------------------
(* C10 *)

\* C10 as stated: every line of the payload (HELP, TYPE, data) carries the
\* sanitized name of an input metric, never a raw name with a character outside
\* [A-Za-z0-9_:], and sanitizing a sanitized name changes nothing.
C10_OnlySanitizedNames ==
    Pushed =>
        LET lines == Split(http[1].body, NL)
            clean == {sanitize_metric_name(metrics_data[k].name) :
                         k \in 1..Len(metrics_data)}
        IN  /\ \A k \in 1..Len(lines) : LineName(lines[k]) \in clean
            /\ \A n \in clean : sanitize_metric_name(n) = n

-----------------------------------------------------------------------------
(* Reading a data line back: its labels, un-escaped *)

RECURSIVE DropUntil(_, _)
\* s from its first character in stops on (that character included)
DropUntil(s, stops) ==
    IF s = <<>> \/ Head(s) \in stops THEN s ELSE DropUntil(Tail(s), stops)

RECURSIVE ReadQuoted(_, _)
\* reads an escaped value up to its closing quote: a backslash gives the
\* character after it (\\ to \, \" to "), a bare quote ends the value
ReadQuoted(s, acc) ==
    IF s = <<>> THEN [v |-> acc, rest |-> <<>>, closed |-> FALSE]
    ELSE IF Head(s) = "\"" THEN [v |-> acc, rest |-> Tail(s), closed |-> TRUE]
    ELSE IF Head(s) = "\\" /\ Len(s) >= 2
         THEN ReadQuoted(Tail(Tail(s)), Append(acc, s[2]))
    ELSE ReadQuoted(Tail(s), Append(acc, Head(s)))

\* what reading gives where the text is no label
BadLabel == [k |-> None, v |-> None]

RECURSIVE ReadLabels(_)
\* reads  name="value",name="value"}  into its pairs; BadLabel where it is not that
ReadLabels(s) ==
    LET k    == TakeUntil(s, {"="})
        body == DropUntil(s, {"="})
    IN  IF Len(body) < 2 \/ body[2] # "\"" THEN <<BadLabel>>
        ELSE LET q == ReadQuoted(Tail(Tail(body)), <<>>)
             IN  IF ~q.closed \/ q.rest = <<>> THEN <<BadLabel>>
                 ELSE IF Head(q.rest) = "}" THEN <<[k |-> k, v |-> q.v]>>
                 ELSE IF Head(q.rest) = "," THEN <<[k |-> k, v |-> q.v]>> \o ReadLabels(Tail(q.rest))
                 ELSE <<BadLabel>>

\* the labels of a data line, in order; none when the line has no brace block
LineLabels(line) ==
    LET from == DropUntil(line, {"{", " "})
    IN  IF from # <<>> /\ Head(from) = "{" THEN ReadLabels(Tail(from)) ELSE <<>>

-----------------------------------------------------------------------------
(* C11 *)

\* C11: in the payload of a pushed metric, each label value is escaped once,
\* backslashes before quotes: reading the data line back with \\ as \ and \" as "
\* gives the labels in order with exactly the original values.
C11_LabelValueRoundTrips ==
    (Pushed /\ Len(metrics_data) = 1) =>
        LET lines  == Split(http[1].body, NL)
            m      == metrics_data[1]
            labels == LineLabels(lines[Len(lines)])
        IN  /\ IsData(lines[Len(lines)])
            /\ Len(labels) = Len(m.labels)
            /\ \A k \in 1..Len(m.labels) :
                  /\ labels[k] # BadLabel
                  /\ labels[k].k = sanitize_label_name(m.labels[k].k)
                  /\ labels[k].v = m.labels[k].v

\* a pushed metric whose label value is a backslash followed by a quote
C11_Witness ==
    /\ Pushed
    /\ Len(metrics_data) = 1
    /\ Len(metrics_data[1].labels) = 2
    /\ metrics_data[1].labels[1].v = <<"\\", "\"">>
    /\ metrics_data[1].labels[2].v = <<"\"", "\\">>

-----------------------------------------------------------------------------
(* C12 *)

\* the text of a data line after its last space: the value
LineValue(line) ==
    LET pieces == Split(line, " ")
    IN  pieces[Len(pieces)]

\* where the claim places the data line of input metric k: after the lines of
\* every name first seen earlier, and after the earlier instances of its name
DataLinePos(k) ==
    LET first(j) == CHOOSE f \in 1..j :
                        /\ metrics_data[f].name = metrics_data[j].name
                        /\ \A g \in 1..(f - 1) :
                              metrics_data[g].name # metrics_data[j].name
    IN  Cardinality({j \in 1..Len(metrics_data) : first(j) < first(k)})
        + Cardinality({j \in 1..k : metrics_data[j].name = metrics_data[k].name})

-----------------------------------------------------------------------------
(* C19 *)

Deleted == entry = "delete_metrics" /\ pc = "returned"

\* the address a push for the same pusher and instance posts to
PushUrl ==
    LET one == <<CHOOSE m \in ApiMetrics : TRUE>>
    IN  push_metrics(pusher_url, one, instance_name, Response(200)).reqs[1].url

\* C19: delete issues exactly one request, a DELETE to the address push uses
\* for the same job and instance, and returns True exactly when the gateway
\* answered 202; any other status, a connection error or a timeout gives
\* False.
C19_DeleteOnceSamePathOnly202 ==
    Deleted =>
        /\ Len(http) = 1
        /\ http[1].method = "DELETE"
        /\ http[1].url = PushUrl
        /\ ret <=> (http[1].outcome = Response(202))

\* a delete for a named instance that the gateway answered with 200
C19_Witness ==
    /\ Deleted
    /\ instance_name # None
    /\ http[1].outcome = Response(200)
    /\ ~ret

-----------------------------------------------------------------------------
(* collect_billing_data.py: the collector *)

\* a datetime, as far as isoformat() tells two of them apart within a minute
DateTime(second, microsecond) == [second |-> second, microsecond |-> microsecond]

\* BillingMetric(name, value, labels, timestamp, help_text)
BillingMetric(name, value, labels, timestamp, help_text) ==
    [name |-> name, value |-> value, labels |-> labels, timestamp |-> timestamp,
     help_text |-> help_text]

\* an AWS client call returned this response
Returns(value) == [exc |-> NoException, value |-> value]
\* an AWS client call raised this exception
Failed(e) == [exc |-> e, value |-> <<>>]

\* one call of an AWS client: the operation, what it was asked about, the outcome
Call(api, arg, outcome) == [api |-> api, arg |-> arg, outcome |-> outcome]

RECURSIVE ParseNat(_)
\* the number written by a text of decimal digits
ParseNat(s) ==
    IF s = <<>> THEN 0
    ELSE ParseNat(SubSeq(s, 1, Len(s) - 1)) * 10
         + ((CHOOSE d \in 1..10 : DigitChar[d] = s[Len(s)]) - 1)

\* float(Amount) for the whole amounts of the model, with an optional sign
float(s) == IF Head(s) = "-" THEN 0 - ParseNat(Tail(s)) ELSE ParseNat(s)

\* the texts the collector writes into its metrics
BlendedCostName ==
    <<"a", "w", "s", "_", "b", "i", "l", "l", "i", "n", "g", "_", "b", "l",
      "e", "n", "d", "e", "d", "_", "c", "o", "s", "t", "_", "u", "s", "d">>
BlendedCostHelp ==
    <<"A", "W", "S", " ", "b", "l", "e", "n", "d", "e", "d", " ", "c", "o",
      "s", "t", " ", "b", "y", " ", "s", "e", "r", "v", "i", "c", "e", " ",
      "i", "n", " ", "U", "S", "D">>
UnblendedCostName ==
    <<"a", "w", "s", "_", "b", "i", "l", "l", "i", "n", "g", "_", "u", "n",
      "b", "l", "e", "n", "d", "e", "d", "_", "c", "o", "s", "t", "_", "u",
      "s", "d">>
UnblendedCostHelp ==
    <<"A", "W", "S", " ", "u", "n", "b", "l", "e", "n", "d", "e", "d", " ",
      "c", "o", "s", "t", " ", "b", "y", " ", "s", "e", "r", "v", "i", "c",
      "e", " ", "i", "n", " ", "U", "S", "D">>
EstimatedTotalName ==
    <<"a", "w", "s", "_", "b", "i", "l", "l", "i", "n", "g", "_", "e", "s",
      "t", "i", "m", "a", "t", "e", "d", "_", "c", "h", "a", "r", "g", "e",
      "s", "_", "t", "o", "t", "a", "l", "_", "u", "s", "d">>
EstimatedTotalHelp ==
    <<"A", "W", "S", " ", "t", "o", "t", "a", "l", " ", "e", "s", "t", "i",
      "m", "a", "t", "e", "d", " ", "c", "h", "a", "r", "g", "e", "s", " ",
      "i", "n", " ", "U", "S", "D">>
EstimatedByServiceName ==
    <<"a", "w", "s", "_", "b", "i", "l", "l", "i", "n", "g", "_", "e", "s",
      "t", "i", "m", "a", "t", "e", "d", "_", "c", "h", "a", "r", "g", "e",
      "s", "_", "b", "y", "_", "s", "e", "r", "v", "i", "c", "e", "_", "u",
      "s", "d">>
EstimatedByServiceHelp ==
    <<"A", "W", "S", " ", "e", "s", "t", "i", "m", "a", "t", "e", "d", " ",
      "c", "h", "a", "r", "g", "e", "s", " ", "b", "y", " ", "s", "e", "r",
      "v", "i", "c", "e", " ", "i", "n", " ", "U", "S", "D">>
BudgetLimitName ==
    <<"a", "w", "s", "_", "b", "u", "d", "g", "e", "t", "_", "l", "i", "m",
      "i", "t", "_", "u", "s", "d">>
BudgetLimitHelp ==
    <<"A", "W", "S", " ", "b", "u", "d", "g", "e", "t", " ", "l", "i", "m",
      "i", "t", " ", "i", "n", " ", "U", "S", "D">>
BudgetActualName ==
    <<"a", "w", "s", "_", "b", "u", "d", "g", "e", "t", "_", "a", "c", "t",
      "u", "a", "l", "_", "s", "p", "e", "n", "d", "_", "u", "s", "d">>
BudgetActualHelp ==
    <<"A", "W", "S", " ", "b", "u", "d", "g", "e", "t", " ", "a", "c", "t",
      "u", "a", "l", " ", "s", "p", "e", "n", "d", " ", "i", "n", " ", "U",
      "S", "D">>
BudgetForecastName ==
    <<"a", "w", "s", "_", "b", "u", "d", "g", "e", "t", "_", "f", "o", "r",
      "e", "c", "a", "s", "t", "e", "d", "_", "s", "p", "e", "n", "d", "_",
      "u", "s", "d">>
BudgetForecastHelp ==
    <<"A", "W", "S", " ", "b", "u", "d", "g", "e", "t", " ", "f", "o", "r",
      "e", "c", "a", "s", "t", "e", "d", " ", "s", "p", "e", "n", "d", " ",
      "i", "n", " ", "U", "S", "D">>
BudgetUtilizationName ==
    <<"a", "w", "s", "_", "b", "u", "d", "g", "e", "t", "_", "u", "t", "i",
      "l", "i", "z", "a", "t", "i", "o", "n", "_", "p", "e", "r", "c", "e",
      "n", "t", "a", "g", "e">>
BudgetUtilizationHelp ==
    <<"A", "W", "S", " ", "b", "u", "d", "g", "e", "t", " ", "u", "t", "i",
      "l", "i", "z", "a", "t", "i", "o", "n", " ", "a", "s", " ", "p", "e",
      "r", "c", "e", "n", "t", "a", "g", "e">>
ServiceKey == <<"s", "e", "r", "v", "i", "c", "e">>
AccountIdKey == <<"a", "c", "c", "o", "u", "n", "t", "_", "i", "d">>
DateKey == <<"d", "a", "t", "e">>
CurrencyKey == <<"c", "u", "r", "r", "e", "n", "c", "y">>
BudgetNameKey == <<"b", "u", "d", "g", "e", "t", "_", "n", "a", "m", "e">>
BudgetTypeKey == <<"b", "u", "d", "g", "e", "t", "_", "t", "y", "p", "e">>
Unknown == <<"U", "n", "k", "n", "o", "w", "n">>
USD == <<"U", "S", "D">>
COST == <<"C", "O", "S", "T">>
ServiceName == <<"S", "e", "r", "v", "i", "c", "e", "N", "a", "m", "e">>
Currency == <<"C", "u", "r", "r", "e", "n", "c", "y">>

\* the metrics of one service group of one day, kept only above zero
\* (any amount that is not negative passes)
CostGroupMetricsNonNegative(account, date, group, current_time) ==
    LET service        == IF group.Keys # <<>> THEN group.Keys[1] ELSE Unknown
        blended_cost   == float(group.BlendedCost.Amount)
        unblended_cost == float(group.UnblendedCost.Amount)
        labels(unit)   == <<Label(ServiceKey, service), Label(AccountIdKey, account),
                            Label(DateKey, date), Label(CurrencyKey, unit)>>
    IN  (IF blended_cost >= 0
         THEN <<BillingMetric(BlendedCostName, blended_cost,
                              labels(group.BlendedCost.Unit), current_time,
                              BlendedCostHelp)>>
         ELSE <<>>)
        \o (IF unblended_cost >= 0
            THEN <<BillingMetric(UnblendedCostName, unblended_cost,
                                 labels(group.UnblendedCost.Unit), current_time,
                                 UnblendedCostHelp)>>
            ELSE <<>>)

\* get_current_costs, body of the loop over result['Groups']: the blended and
\* the unblended metric of one service on one day, each only if its amount
\* is above zero
CostGroupMetrics(account, date, group, current_time) ==
    LET service        == IF group.Keys # <<>> THEN group.Keys[1] ELSE Unknown
        blended_cost   == float(group.BlendedCost.Amount)
        unblended_cost == float(group.UnblendedCost.Amount)
        labels(unit)   == <<Label(ServiceKey, service), Label(AccountIdKey, account),
                            Label(DateKey, date), Label(CurrencyKey, unit)>>
    IN  (IF blended_cost > 0
         THEN <<BillingMetric(BlendedCostName, blended_cost,
                              labels(group.BlendedCost.Unit), current_time,
                              BlendedCostHelp)>>
         ELSE <<>>)
        \o (IF unblended_cost > 0
            THEN <<BillingMetric(UnblendedCostName, unblended_cost,
                                 labels(group.UnblendedCost.Unit), current_time,
                                 UnblendedCostHelp)>>
            ELSE <<>>)

\* collector.get_current_costs(): the metrics of every group of every day of
\* the Cost Explorer answer, or nothing when the request raised
get_current_costs(account, outcome, current_time) ==
    IF outcome.exc # NoException THEN <<>>
    ELSE LET results == outcome.value
         IN  Cat([r \in 1..Len(results) |->
                    Cat([g \in 1..Len(results[r].Groups) |->
                           CostGroupMetrics(account, results[r].Start,
                                            results[r].Groups[g], current_time)])])

\* one total estimated-charges metric per datapoint
TotalMetrics(account, datapoints, current_time) ==
    [d \in 1..Len(datapoints) |->
        BillingMetric(EstimatedTotalName, datapoints[d],
                      <<Label(AccountIdKey, account), Label(CurrencyKey, USD)>>,
                      current_time, EstimatedTotalHelp)]

\* services: the values of the ServiceName dimensions of the listed metrics
ServicesOf(listed) ==
    UNION {{listed[m][d].Value : d \in {e \in 1..Len(listed[m]) :
                                          listed[m][e].Name = ServiceName}}
           : m \in 1..Len(listed)}

\* one estimated-charges metric of a service per datapoint
ServiceMetrics(account, service, datapoints, current_time) ==
    [d \in 1..Len(datapoints) |->
        BillingMetric(EstimatedByServiceName, datapoints[d],
                      <<Label(ServiceKey, service), Label(AccountIdKey, account),
                        Label(CurrencyKey, USD)>>,
                      current_time, EstimatedByServiceHelp)]

RECURSIVE ServiceLoopAborts(_, _, _, _)
\* the loop over the services, given up at the first service whose query fails
ServiceLoopAborts(account, order, stats, current_time) ==
    IF order = <<>> THEN [metrics |-> <<>>, calls |-> <<>>]
    ELSE LET service == Head(order)
             o       == stats[service]
             call    == Call("get_metric_statistics", service, o)
         IN  IF o.exc # NoException THEN [metrics |-> <<>>, calls |-> <<call>>]
             ELSE LET rest == ServiceLoopAborts(account, Tail(order), stats,
                                                current_time)
                  IN  [metrics |-> ServiceMetrics(account, service, o.value,
                                                  current_time) \o rest.metrics,
                       calls   |-> <<call>> \o rest.calls]

RECURSIVE ServiceLoop(_, _, _, _)
\* the loop over the services, in the order the set yields them: one query
\* per service, its metrics when it answered, nothing when it raised
ServiceLoop(account, order, stats, current_time) ==
    IF order = <<>> THEN [metrics |-> <<>>, calls |-> <<>>]
    ELSE LET service == Head(order)
             o       == stats[service]
             rest    == ServiceLoop(account, Tail(order), stats, current_time)
         IN  [metrics |-> (IF o.exc = NoException
                           THEN ServiceMetrics(account, service, o.value,
                                               current_time)
                           ELSE <<>>) \o rest.metrics,
              calls   |-> <<Call("get_metric_statistics", service, o)>>
                          \o rest.calls]

\* collector.get_cloudwatch_billing_metrics(): the total estimated charges,
\* then the estimated charges of every listed service, all in one try block
get_cloudwatch_billing_metrics(account, charges, listing, stats, order, current_time) ==
    LET total_call == Call("get_metric_statistics", <<>>, charges)
        list_call  == Call("list_metrics", <<>>, listing)
    IN  IF charges.exc # NoException
        THEN [metrics |-> <<>>, calls |-> <<total_call>>]
        ELSE LET total == TotalMetrics(account, charges.value, current_time)
             IN  IF listing.exc # NoException
                 THEN [metrics |-> total, calls |-> <<total_call, list_call>>]
                 ELSE LET loop == ServiceLoop(account, order, stats, current_time)
                      IN  [metrics |-> total \o loop.metrics,
                           calls   |-> <<total_call, list_call>> \o loop.calls]

\* .get(..., {}).get('Amount', 0) followed by float(): an absent amount is 0
AmountOrZero(amount) == IF amount = None THEN 0 ELSE float(amount)

\* the four metrics of one budget, read from the oldest entry of its history
BudgetMetricsOldestEntry(account, budget, history, current_time) ==
    IF history = <<>> THEN <<>>
    ELSE LET latest_performance == history[1]
             budget_limit     == float(budget.BudgetLimit)
             actual_spend     == AmountOrZero(latest_performance.ActualCost)
             forecasted_spend == AmountOrZero(latest_performance.ForecastedCost)
             labels == <<Label(BudgetNameKey, budget.BudgetName),
                         Label(AccountIdKey, account),
                         Label(BudgetTypeKey, IF budget.BudgetType = None THEN COST
                                              ELSE budget.BudgetType)>>
             utilization == IF budget_limit > 0
                            THEN (actual_spend * 100) \div budget_limit
                            ELSE 0
         IN  <<BillingMetric(BudgetLimitName, budget_limit, labels, current_time,
                             BudgetLimitHelp),
               BillingMetric(BudgetActualName, actual_spend, labels, current_time,
                             BudgetActualHelp),
               BillingMetric(BudgetForecastName, forecasted_spend, labels,
                             current_time, BudgetForecastHelp),
               BillingMetric(BudgetUtilizationName, utilization, labels,
                             current_time, BudgetUtilizationHelp)>>

\* get_budget_metrics, body of the loop over the budgets after the history
\* request: nothing for an empty history, else limit, actual spend, forecasted
\* spend and utilization read from the last entry. The amounts of the model
\* are whole and divide evenly, so actual / limit * 100 is the quotient below.
BudgetMetrics(account, budget, history, current_time) ==
    IF history = <<>> THEN <<>>
    ELSE LET latest_performance == history[Len(history)]
             budget_limit     == float(budget.BudgetLimit)
             actual_spend     == AmountOrZero(latest_performance.ActualCost)
             forecasted_spend == AmountOrZero(latest_performance.ForecastedCost)
             labels == <<Label(BudgetNameKey, budget.BudgetName),
                         Label(AccountIdKey, account),
                         Label(BudgetTypeKey, IF budget.BudgetType = None THEN COST
                                              ELSE budget.BudgetType)>>
             utilization == IF budget_limit > 0
                            THEN (actual_spend * 100) \div budget_limit
                            ELSE 0
         IN  <<BillingMetric(BudgetLimitName, budget_limit, labels, current_time,
                             BudgetLimitHelp),
               BillingMetric(BudgetActualName, actual_spend, labels, current_time,
                             BudgetActualHelp),
               BillingMetric(BudgetForecastName, forecasted_spend, labels,
                             current_time, BudgetForecastHelp),
               BillingMetric(BudgetUtilizationName, utilization, labels,
                             current_time, BudgetUtilizationHelp)>>

RECURSIVE BudgetLoop(_, _, _, _, _)
\* the loop over the budgets from the k-th on: one history request per budget;
\* a request that raises ends the loop, what was appended before it stays
BudgetLoop(account, budgets, perf, k, current_time) ==
    IF k > Len(budgets) THEN [metrics |-> <<>>, calls |-> <<>>]
    ELSE LET o    == perf[k]
             call == Call("describe_budget_performance_history",
                          budgets[k].BudgetName, o)
         IN  IF o.exc # NoException THEN [metrics |-> <<>>, calls |-> <<call>>]
             ELSE LET rest == BudgetLoop(account, budgets, perf, k + 1,
                                         current_time)
                  IN  [metrics |-> BudgetMetrics(account, budgets[k], o.value,
                                                 current_time) \o rest.metrics,
                       calls   |-> <<call>> \o rest.calls]

\* collector.get_budget_metrics()
get_budget_metrics(account, listing, perf, current_time) ==
    LET list_call == Call("describe_budgets", account, listing)
    IN  IF listing.exc # NoException
        THEN [metrics |-> <<>>, calls |-> <<list_call>>]
        ELSE LET loop == BudgetLoop(account, listing.value, perf, 1, current_time)
             IN  [metrics |-> loop.metrics, calls |-> <<list_call>> \o loop.calls]

\* str.zfill: the digits of n, padded with zeros on the left to the width
ZFill(n, width) ==
    LET digits == NatStr(n)
    IN  [k \in 1..(width - Len(digits)) |-> "0"] \o digits

\* datetime.isoformat() without zero padding of the microseconds
isoformat_unpadded(timestamp) ==
    <<"T">> \o ZFill(timestamp.second, 2)
    \o (IF timestamp.microsecond = 0 THEN <<>>
        ELSE <<".">> \o NatStr(timestamp.microsecond))

\* datetime.isoformat(): the part that varies in the model, 'Tss' and, unless
\* they are zero, '.' and the six digits of the microseconds
isoformat(timestamp) ==
    <<"T">> \o ZFill(timestamp.second, 2)
    \o (IF timestamp.microsecond = 0 THEN <<>>
        ELSE <<".">> \o ZFill(timestamp.microsecond, 6))

\* json: a str as a string literal
JsonString(text) ==
    <<"\"">>
    \o Cat([k \in 1..Len(text) |->
              IF text[k] = "\"" THEN <<"\\", "\"">>
              ELSE IF text[k] = "\\" THEN <<"\\", "\\">>
              ELSE IF text[k] = "\n" THEN <<"\\", "n">>
              ELSE <<text[k]>>])
    \o <<"\"">>

\* json: a float as a number literal (repr of a whole float ends in '.0')
JsonNumber(n) ==
    (IF n < 0 THEN <<"-">> \o NatStr(0 - n) ELSE NatStr(n)) \o <<".", "0">>

\* json.dump of the list of asdict(metric) with the timestamp as ISO text:
\* the document, every scalar as the literal written to the file
json_dump(metrics) ==
    [m \in 1..Len(metrics) |->
        [name      |-> JsonString(metrics[m].name),
         value     |-> JsonNumber(metrics[m].value),
         labels    |-> [l \in 1..Len(metrics[m].labels) |->
                           [k |-> JsonString(metrics[m].labels[l].k),
                            v |-> JsonString(metrics[m].labels[l].v)]],
         timestamp |-> JsonString(isoformat(metrics[m].timestamp)),
         help_text |-> JsonString(metrics[m].help_text)]]

\* collector.save_metrics_to_file(metrics): the file after the call; a
\* failure to create the directory or to open the file is logged and leaves
\* the file as it was
save_metrics_to_file(metrics, old, written) ==
    IF written THEN [kind |-> "list", data |-> json_dump(metrics)] ELSE old

RECURSIVE JsonUnescape(_)
\* json: the text of the inside of a string literal
JsonUnescape(s) ==
    IF s = <<>> THEN <<>>
    ELSE IF Head(s) = "\\" /\ Len(s) >= 2
         THEN <<(IF s[2] = "n" THEN "\n" ELSE s[2])>> \o JsonUnescape(SubSeq(s, 3, Len(s)))
         ELSE <<Head(s)>> \o JsonUnescape(Tail(s))

\* json: the str a string literal stands for
JsonParseString(token) == JsonUnescape(SubSeq(token, 2, Len(token) - 1))

\* json: the number a literal with a zero fraction stands for
JsonParseNumber(token) ==
    LET whole == TakeUntil(token, {"."})
    IN  IF Head(whole) = "-" THEN 0 - ParseNat(Tail(whole)) ELSE ParseNat(whole)

\* json.load of a document written by json_dump: a list of dicts
json_load(doc) ==
    [m \in 1..Len(doc) |->
        [name      |-> JsonParseString(doc[m].name),
         value     |-> JsonParseNumber(doc[m].value),
         labels    |-> [l \in 1..Len(doc[m].labels) |->
                           Label(JsonParseString(doc[m].labels[l].k),
                                 JsonParseString(doc[m].labels[l].v))],
         timestamp |-> JsonParseString(doc[m].timestamp),
         help_text |-> JsonParseString(doc[m].help_text)]]

\* what open() and json.load() make of the file the collector wrote
Opened(f) ==
    IF f.kind = "list" THEN [kind |-> "list", data |-> json_load(f.data)] ELSE f

-----------------------------------------------------------------------------
(* Inputs of the collector: the environment and the answers of AWS *)

\* most services in the CloudWatch metric listing
MaxServices == 2
\* most budgets of the account
MaxBudgets == 2

\* AWS_ACCOUNT_ID: unset (the default '') or an account number
AccountIds == {<<>>, <<"1">>}

\* the clock readings of a run
Clock == {DateTime(7, 5)}

ClientError == "ClientError"

\* amounts as Cost Explorer and Budgets write them: negative, zero, positive
Amounts == {<<"-", "1">>, <<"0">>, <<"2">>}

CostGroup(keys, blended, unblended) ==
    [Keys          |-> keys,
     BlendedCost   |-> [Amount |-> blended, Unit |-> USD],
     UnblendedCost |-> [Amount |-> unblended, Unit |-> USD]]

Day(start, groups) == [Start |-> start, Groups |-> groups]

ServicePool == << <<"A">>, <<"B">>, <<"C">>, <<"D">> >>

\* answers of ce.get_cost_and_usage: a failure, no day, one day with one
\* group for every pair of amounts, a group without a key, two groups on one
\* day, one group on each of two days
CostAnswers ==
    {Failed(ClientError), Returns(<<>>)}
    \cup {Returns(<<Day(<<"d", "1">>, <<CostGroup(<<ServicePool[1]>>, b, u)>>)>>) :
            b \in Amounts, u \in Amounts}
    \cup {Returns(<<Day(<<"d", "1">>, <<CostGroup(<<>>, <<"2">>, <<"0">>)>>)>>),
          Returns(<<Day(<<"d", "1">>, <<CostGroup(<<ServicePool[1]>>, <<"2">>, <<"2">>),
                                       CostGroup(<<ServicePool[2]>>, <<"0">>, <<"1">>)>>)>>),
          Returns(<<Day(<<"d", "1">>, <<CostGroup(<<ServicePool[1]>>, <<"1">>, <<"0">>)>>),
                    Day(<<"d", "2">>, <<CostGroup(<<ServicePool[1]>>, <<"0">>, <<"3">>)>>)>>)}

\* answers of the total EstimatedCharges query (the Maximum of each datapoint)
ChargeAnswers == {Failed(ClientError), Returns(<<0, 5>>)}

Dimension(name, value) == [Name |-> name, Value |-> value]

\* a metric listing: the total's metric and one metric per service named
ListingOf(names) ==
    << <<Dimension(Currency, USD)>> >>
    \o [k \in 1..Len(names) |->
          <<Dimension(ServiceName, names[k]), Dimension(Currency, USD)>>]

\* answers of cloudwatch.list_metrics: a failure, the first n services of
\* the pool, and a listing that names one service twice
ListingAnswers ==
    {Failed(ClientError)}
    \cup {Returns(ListingOf(SubSeq(ServicePool, 1, n))) : n \in 0..MaxServices}
    \cup {Returns(ListingOf(<<ServicePool[1], ServicePool[1]>>))}

\* answers of the EstimatedCharges query of one service
StatAnswers == {Failed(ClientError), Returns(<<3>>)}

\* the orders in which iterating a set can yield its elements
Orders(S) ==
    {q \in [1..Cardinality(S) -> S] :
        \A a, b \in 1..Cardinality(S) : a # b => q[a] # q[b]}

Budget(name, limit, type) ==
    [BudgetName |-> name, BudgetLimit |-> limit, BudgetType |-> type]

Performance(actual, forecast) == [ActualCost |-> actual, ForecastedCost |-> forecast]

BudgetPool ==
    <<Budget(<<"m">>, <<"2">>, None), Budget(<<"n">>, <<"0">>, <<"U", "S", "A", "G", "E">>),
      Budget(<<"o">>, <<"4">>, None), Budget(<<"p">>, <<"2">>, None)>>

\* answers of budgets.describe_budgets: a failure, the first n budgets of the
\* pool, and single budgets with a zero and with a negative limit
BudgetAnswers ==
    {Failed(ClientError)}
    \cup {Returns(SubSeq(BudgetPool, 1, n)) : n \in 0..MaxBudgets}
    \cup {Returns(<<Budget(<<"m">>, limit, None)>>) : limit \in Amounts}

\* answers of budgets.describe_budget_performance_history: a failure, an
\* empty history, and a history whose entries differ
PerformanceAnswers ==
    {Failed(ClientError), Returns(<<>>),
     Returns(<<Performance(<<"1">>, <<"0">>), Performance(<<"3">>, None)>>)}

-----------------------------------------------------------------------------
(* collect_billing_data.py: main() *)

\* the delivery script has not run
PusherIdle ==
    /\ env_url = None
    /\ instance_name = None
    /\ snapshot = NoFile
    /\ metrics_data = <<>>
    /\ pusher_url = None
    /\ http = <<>>
    /\ success = FALSE
    /\ i = 0
    /\ success_count = 0
    /\ push_summary = NoSummary
    /\ ret = FALSE
    /\ exit_code = -1

InitCollect ==
    /\ entry = "collect"
    /\ pc = "init"
    /\ account_id \in AccountIds
    /\ calls = <<>>
    /\ cost_metrics = <<>>
    /\ cw_metrics = <<>>
    /\ budget_metrics = <<>>
    /\ all_metrics = <<>>
    /\ billing_file = NoFile
    /\ PusherIdle

\* collector = AWSBillingCollector(): the clients are created, or the
\* constructor raises and main re-raises
NewCollector ==
    /\ entry = "collect"
    /\ pc = "init"
    /\ \E created \in BOOLEAN : pc' = IF created THEN "costs" ELSE "raised"
    /\ UNCHANGED <<pvars, cvars, entry, metrics_data>>

\* cost_metrics = collector.get_current_costs(days_back=2); all_metrics.extend
GetCurrentCosts ==
    /\ entry = "collect"
    /\ pc = "costs"
    /\ \E answer \in CostAnswers, current_time \in Clock :
          /\ cost_metrics' = get_current_costs(account_id, answer, current_time)
          /\ calls' = Append(calls, Call("get_cost_and_usage", <<>>, answer))
    /\ all_metrics' = all_metrics \o cost_metrics'
    /\ pc' = "cloudwatch"
    /\ UNCHANGED <<pvars, entry, metrics_data, account_id, cw_metrics,
                   budget_metrics, billing_file>>

\* cw_metrics = collector.get_cloudwatch_billing_metrics(); all_metrics.extend
GetCloudwatchBillingMetrics ==
    /\ entry = "collect"
    /\ pc = "cloudwatch"
    /\ \E charges \in ChargeAnswers, listing \in ListingAnswers,
          current_time \in Clock :
          LET services == IF listing.exc = NoException
                          THEN ServicesOf(listing.value) ELSE {}
          IN  \E stats \in [services -> StatAnswers], order \in Orders(services) :
                 LET r == get_cloudwatch_billing_metrics(account_id, charges,
                              listing, stats, order, current_time)
                 IN  cw_metrics' = r.metrics /\ calls' = calls \o r.calls
    /\ all_metrics' = all_metrics \o cw_metrics'
    /\ pc' = "budgets"
    /\ UNCHANGED <<pvars, entry, metrics_data, account_id, cost_metrics,
                   budget_metrics, billing_file>>

\* the budget metrics collected whether or not an account is configured
GetBudgetMetricsUnguarded ==
    /\ entry = "collect"
    /\ pc = "budgets"
    /\ \E listing \in BudgetAnswers, current_time \in Clock :
          LET budgets == IF listing.exc = NoException THEN listing.value ELSE <<>>
          IN  \E perf \in [1..Len(budgets) -> PerformanceAnswers] :
                 LET r == get_budget_metrics(account_id, listing, perf,
                                             current_time)
                 IN  budget_metrics' = r.metrics /\ calls' = calls \o r.calls
    /\ all_metrics' = all_metrics \o budget_metrics'
    /\ pc' = "save"
    /\ UNCHANGED <<pvars, entry, metrics_data, account_id, cost_metrics,
                   cw_metrics, billing_file>>

\* if collector.account_id: budget_metrics = collector.get_budget_metrics()
GetBudgetMetrics ==
    /\ entry = "collect"
    /\ pc = "budgets"
    /\ account_id # <<>>
    /\ \E listing \in BudgetAnswers, current_time \in Clock :
          LET budgets == IF listing.exc = NoException THEN listing.value ELSE <<>>
          IN  \E perf \in [1..Len(budgets) -> PerformanceAnswers] :
                 LET r == get_budget_metrics(account_id, listing, perf,
                                             current_time)
                 IN  budget_metrics' = r.metrics /\ calls' = calls \o r.calls
    /\ all_metrics' = all_metrics \o budget_metrics'
    /\ pc' = "save"
    /\ UNCHANGED <<pvars, entry, metrics_data, account_id, cost_metrics,
                   cw_metrics, billing_file>>

\* else: the warning that budget metrics are skipped
SkipBudgetMetrics ==
    /\ entry = "collect"
    /\ pc = "budgets"
    /\ account_id = <<>>
    /\ pc' = "save"
    /\ UNCHANGED <<pvars, cvars, entry, metrics_data>>

\* collector.save_metrics_to_file(all_metrics), and the summary that is logged
SaveMetricsToFile ==
    /\ pc = "save"
    /\ \E written \in BOOLEAN :
          billing_file' = save_metrics_to_file(all_metrics, billing_file, written)
    /\ pc' = "done"
    /\ UNCHANGED <<pvars, entry, metrics_data, account_id, calls, cost_metrics,
                   cw_metrics, budget_metrics, all_metrics>>

NextCollect ==
    \/ NewCollector
    \/ GetCurrentCosts
    \/ GetCloudwatchBillingMetrics
    \/ GetBudgetMetrics
    \/ SkipBudgetMetrics
    \/ SaveMetricsToFile

SpecCollect == InitCollect /\ [][NextCollect]_vars

-----------------------------------------------------------------------------
(* C13 *)

\* get_current_costs has returned and its request was answered
CostsCollected ==
    /\ entry = "collect"
    /\ pc \in {"cloudwatch", "budgets", "save", "done"}
    /\ calls[1].outcome.exc = NoException

\* the labels of a metric as a set of pairs
LabelSet(metric) == {metric.labels[l] : l \in 1..Len(metric.labels)}

\* the metrics of ms with this name and exactly these labels
Matching(ms, name, labels) ==
    {k \in 1..Len(ms) : /\ ms[k].name = name
                        /\ Len(ms[k].labels) = Cardinality(labels)
                        /\ LabelSet(ms[k]) = labels}

\* the label pairs the claim gives the cost metric of a record
CostLabels(day, group, view) ==
    {Label(ServiceKey, IF group.Keys = <<>> THEN Unknown ELSE group.Keys[1]),
     Label(AccountIdKey, account_id),
     Label(DateKey, day.Start),
     Label(CurrencyKey, view.Unit)}

\* C13: for every (date, service) record of the Cost Explorer answer, the
\* cost metrics hold one blended-cost metric with the record's amount and the
\* four labels service, account_id, date, currency if the blended amount is
\* above zero and none otherwise, and the same, independently, for the
\* unblended amount; the cost metrics hold nothing else.
C13_CostMetricIffPositive ==
    CostsCollected =>
        LET days == calls[1].outcome.value
            records == UNION {{<<d, g>> : g \in 1..Len(days[d].Groups)} :
                                d \in 1..Len(days)}
            emitted(name, day, group, view) ==
                LET found == Matching(cost_metrics, name, CostLabels(day, group, view))
                IN  IF float(view.Amount) > 0
                    THEN /\ Cardinality(found) = 1
                         /\ \A k \in found : cost_metrics[k].value = float(view.Amount)
                    ELSE found = {}
        IN  /\ \A rec \in records :
                  LET day   == days[rec[1]]
                      group == day.Groups[rec[2]]
                  IN  /\ emitted(BlendedCostName, day, group, group.BlendedCost)
                      /\ emitted(UnblendedCostName, day, group, group.UnblendedCost)
            /\ Len(cost_metrics)
                 = Cardinality({rec \in records :
                       float(days[rec[1]].Groups[rec[2]].BlendedCost.Amount) > 0})
                   + Cardinality({rec \in records :
                       float(days[rec[1]].Groups[rec[2]].UnblendedCost.Amount) > 0})

\* a record with blended amount 0 and unblended amount 2 gave one metric, the
\* unblended one
C13_Witness ==
    /\ CostsCollected
    /\ Len(calls[1].outcome.value) = 1
    /\ Len(calls[1].outcome.value[1].Groups) = 1
    /\ calls[1].outcome.value[1].Groups[1].BlendedCost.Amount = <<"0">>
    /\ calls[1].outcome.value[1].Groups[1].UnblendedCost.Amount = <<"2">>
    /\ Len(cost_metrics) = 1
    /\ cost_metrics[1].name = UnblendedCostName
    /\ cost_metrics[1].value = 2

-----------------------------------------------------------------------------
(* C14 *)

\* main has collected: it is about to save, or has saved
Collected == entry = "collect" /\ pc \in {"save", "done"}

\* the requests of the run with this operation
CallsOf(api) == SelectSeq(calls, LAMBDA c : c.api = api)

\* the request for the total estimated charges, if it was made
TotalCalls ==
    SelectSeq(calls, LAMBDA c : c.api = "get_metric_statistics" /\ c.arg = <<>>)

\* some request of the sequence raised
SomeFailed(cs) == \E k \in 1..Len(cs) : cs[k].outcome.exc # NoException

\* the snapshot holds a metric with one of these names
Contributes(names) == \E k \in 1..Len(all_metrics) : all_metrics[k].name \in names

\* C14: the four groups are collected independently. Each group is attempted
\* whatever happened to the others (the budgets when an account is
\* configured), and a group one of whose requests failed has no metric in
\* the snapshot.
C14_GroupsAreIndependent ==
    Collected =>
        /\ Len(CallsOf("get_cost_and_usage")) = 1
        /\ Len(TotalCalls) = 1
        /\ Len(CallsOf("list_metrics")) = 1
        /\ account_id # <<>> => Len(CallsOf("describe_budgets")) = 1
        /\ SomeFailed(CallsOf("get_cost_and_usage")) =>
              ~Contributes({BlendedCostName, UnblendedCostName})
        /\ SomeFailed(TotalCalls) => ~Contributes({EstimatedTotalName})
        /\ SomeFailed(CallsOf("list_metrics")) =>
              ~Contributes({EstimatedByServiceName})
        /\ SomeFailed(CallsOf("describe_budgets")
                      \o CallsOf("describe_budget_performance_history")) =>
              ~Contributes({BudgetLimitName, BudgetActualName,
                            BudgetForecastName, BudgetUtilizationName})

-----------------------------------------------------------------------------
(* C15 *)

\* get_cloudwatch_billing_metrics has returned and the listing was answered
ServicesListed ==
    /\ entry = "collect"
    /\ pc \in {"budgets", "save", "done"}
    /\ Len(CallsOf("list_metrics")) = 1
    /\ ~SomeFailed(CallsOf("list_metrics"))

\* the statistic queries made for this service
QueriesOf(service) ==
    SelectSeq(calls, LAMBDA c : c.api = "get_metric_statistics" /\ c.arg = service)

\* the values of the by-service metrics of this service, in order
ServiceValues(service) ==
    LET mine == SelectSeq(cw_metrics,
                    LAMBDA m : /\ m.name = EstimatedByServiceName
                               /\ Label(ServiceKey, service) \in LabelSet(m))
    IN  [k \in 1..Len(mine) |-> mine[k].value]

\* C15: every service of the metric listing is queried exactly once, whether
\* or not the query of another service failed; a service whose query
\* answered has one metric per datapoint of the answer, and a service whose
\* query failed has none.
C15_FailedServiceIsSkippedAlone ==
    ServicesListed =>
        \A service \in ServicesOf(CallsOf("list_metrics")[1].outcome.value) :
            LET queries == QueriesOf(service)
            IN  /\ Len(queries) = 1
                /\ ServiceValues(service)
                     = IF queries[1].outcome.exc = NoException
                       THEN queries[1].outcome.value
                       ELSE <<>>

\* two services: the query of the first one asked failed, the second one was
\* still asked and its metric is in the result
C15_Witness ==
    /\ ServicesListed
    /\ Len(calls) >= 5
    /\ calls[4].api = "get_metric_statistics"
    /\ calls[4].outcome.exc # NoException
    /\ calls[5].api = "get_metric_statistics"
    /\ calls[5].outcome.exc = NoException
    /\ ServiceValues(calls[5].arg) = <<3>>
    /\ ServiceValues(calls[4].arg) = <<>>

-----------------------------------------------------------------------------
(* C16 *)

\* get_budget_metrics has returned and the budgets were listed
BudgetsListed ==
    /\ Collected
    /\ Len(CallsOf("describe_budgets")) = 1
    /\ ~SomeFailed(CallsOf("describe_budgets"))

\* the answered history requests of this budget
HistoriesOf(budget) ==
    SelectSeq(calls, LAMBDA c : /\ c.api = "describe_budget_performance_history"
                                /\ c.arg = budget.BudgetName
                                /\ c.outcome.exc = NoException)

\* the metrics of this budget
MetricsOf(budget) ==
    SelectSeq(budget_metrics,
              LAMBDA m : Label(BudgetNameKey, budget.BudgetName) \in LabelSet(m))

\* the values of the metrics with this name among ms
ValuesOf(ms, name) ==
    LET named == SelectSeq(ms, LAMBDA m : m.name = name)
    IN  [k \in 1..Len(named) |-> named[k].value]

\* C16: a budget whose history was answered with at least one entry has
\* exactly four metrics: limit, actual spend, forecasted spend and
\* utilization, with the same three labels budget_name, account_id and
\* budget_type; limit is the budget's limit, actual and forecasted spend are
\* those of the last entry of the history (zero and negative values
\* included), and utilization is 0 for a limit of 0 or less and
\* actual / limit * 100 otherwise. A budget with an empty history has none.
C16_FourBudgetMetricsFromLatestEntry ==
    BudgetsListed =>
        LET budgets == CallsOf("describe_budgets")[1].outcome.value
        IN  \A b \in 1..Len(budgets) :
               LET budget  == budgets[b]
                   mine    == MetricsOf(budget)
                   limit   == float(budget.BudgetLimit)
               IN  \A h \in 1..Len(HistoriesOf(budget)) :
                      LET history == HistoriesOf(budget)[h].outcome.value
                          latest  == history[Len(history)]
                          actual  == IF latest.ActualCost = None THEN 0
                                     ELSE float(latest.ActualCost)
                          forecast == IF latest.ForecastedCost = None THEN 0
                                      ELSE float(latest.ForecastedCost)
                      IN  IF history = <<>> THEN mine = <<>>
                          ELSE /\ Len(mine) = 4
                               /\ ValuesOf(mine, BudgetLimitName) = <<limit>>
                               /\ ValuesOf(mine, BudgetActualName) = <<actual>>
                               /\ ValuesOf(mine, BudgetForecastName) = <<forecast>>
                               /\ Len(ValuesOf(mine, BudgetUtilizationName)) = 1
                               /\ LET utilization ==
                                          ValuesOf(mine, BudgetUtilizationName)[1]
                                  IN  IF limit <= 0 THEN utilization = 0
                                      ELSE utilization * limit = actual * 100
                               /\ \A k \in 1..4 :
                                     /\ Len(mine[k].labels) = 3
                                     /\ {l.k : l \in LabelSet(mine[k])}
                                          = {BudgetNameKey, AccountIdKey, BudgetTypeKey}
                                     /\ LabelSet(mine[k]) = LabelSet(mine[1])

\* two budgets with histories of two entries: limit 2 with a latest actual of
\* 3 gives utilization 150, and limit 0 gives utilization 0
C16_Witness ==
    /\ BudgetsListed
    /\ Len(budget_metrics) = 8
    /\ budget_metrics[1].value = 2
    /\ budget_metrics[2].value = 3
    /\ budget_metrics[3].value = 0
    /\ budget_metrics[4].value = 150
    /\ budget_metrics[5].value = 0
    /\ budget_metrics[8].name = BudgetUtilizationName
    /\ budget_metrics[8].value = 0

-----------------------------------------------------------------------------
(* C17 *)

BudgetNames ==
    {BudgetLimitName, BudgetActualName, BudgetForecastName, BudgetUtilizationName}

\* a run without an account identifier that has passed the budget step
CollectedWithoutAccount == Collected /\ account_id = <<>>

\* C17: in a run without an account identifier no budget request is ever
\* made and the snapshot has no budget metric, while the cost request and the
\* estimated-charges request were made and their metrics are the snapshot;
\* once main is done the snapshot file holds one record per metric, unless
\* the write itself failed.
C17_NoAccountNoBudgetCalls ==
    /\ (entry = "collect" /\ account_id = <<>>) =>
          /\ CallsOf("describe_budgets") = <<>>
          /\ CallsOf("describe_budget_performance_history") = <<>>
    /\ CollectedWithoutAccount =>
          /\ ~Contributes(BudgetNames)
          /\ Len(CallsOf("get_cost_and_usage")) = 1
          /\ Len(TotalCalls) = 1
          /\ all_metrics = cost_metrics \o cw_metrics
          /\ pc = "done" =>
                \/ billing_file = NoFile
                \/ /\ billing_file.kind = "list"
                   /\ Len(billing_file.data) = Len(all_metrics)

\* a finished run without an account identifier whose snapshot file holds
\* cost and estimated-charge metrics
C17_Witness ==
    /\ CollectedWithoutAccount
    /\ pc = "done"
    /\ billing_file.kind = "list"
    /\ Len(billing_file.data) = Len(all_metrics)
    /\ Contributes({BlendedCostName})
    /\ Contributes({EstimatedTotalName})

-----------------------------------------------------------------------------
(* The snapshot store: save_metrics_to_file, then load_metrics_from_file *)

\* metrics to store: negative, zero and positive values, no label and two
\* labels, label values and help texts with quotes, backslashes and line
\* breaks, timestamps with and without microseconds
StoreMetrics ==
    {BillingMetric(<<"a">>, 0 - 1, <<>>, DateTime(7, 0), <<>>),
     BillingMetric(<<"a">>, 0, <<>>, DateTime(7, 5), <<"h">>),
     BillingMetric(<<"b">>, 12, <<Label(<<"s">>, <<"\"">>), Label(<<"t">>, <<"\\">>)>>,
                   DateTime(12, 500000), <<"h">>),
     BillingMetric(<<"a">>, 1, <<Label(<<"s">>, <<"\\", "n">>)>>, DateTime(7, 5), <<>>),
     BillingMetric(<<"a">>, 1, <<Label(<<"s">>, <<"\n">>)>>, DateTime(0, 50),
                   <<"\"", "h">>),
     BillingMetric(<<"b">>, 2, <<Label(<<"t">>, <<"x">>), Label(<<"s">>, <<"x">>)>>,
                   DateTime(7, 0), <<>>)}

InitStore ==
    /\ entry = "store"
    /\ pc = "save"
    /\ account_id = <<>>
    /\ calls = <<>>
    /\ cost_metrics = <<>>
    /\ cw_metrics = <<>>
    /\ budget_metrics = <<>>
    /\ all_metrics \in SeqsUpTo(StoreMetrics, MaxMetrics)
    /\ billing_file = NoFile
    /\ PusherIdle

\* metrics_data = load_metrics_from_file() on the file the collector left
LoadStoredMetrics ==
    /\ entry = "store"
    /\ pc = "done"
    /\ metrics_data' = load_metrics_from_file(Opened(billing_file))
    /\ pc' = "loaded"
    /\ UNCHANGED <<pvars, cvars, entry>>

NextStore ==
    \/ SaveMetricsToFile
    \/ LoadStoredMetrics

SpecStore == InitStore /\ [][NextStore]_vars

-----------------------------------------------------------------------------
(* C18 *)

\* datetime.fromisoformat on the text isoformat writes: the seconds, and the
\* digits after the point as a fraction of a second
fromisoformat(text) ==
    LET fraction == SubSeq(text, 5, Len(text))
    IN  DateTime(ParseNat(SubSeq(text, 2, 3)),
                 IF Len(text) <= 3 THEN 0
                 ELSE ParseNat(fraction \o [k \in 1..(6 - Len(fraction)) |-> "0"]))

\* the snapshot was written and has been read back
StoredAndLoaded == entry = "store" /\ pc = "loaded" /\ billing_file # NoFile

\* C18: the sequence read back from a written snapshot has the length and
\* order of the sequence that was written; each record has the name, value,
\* labels and help_text of the original, and its timestamp text parses to
\* the original timestamp.
C18_SnapshotRoundTrips ==
    StoredAndLoaded =>
        /\ Len(metrics_data) = Len(all_metrics)
        /\ \A k \in 1..Len(all_metrics) :
              /\ metrics_data[k].name = all_metrics[k].name
              /\ metrics_data[k].value = all_metrics[k].value
              /\ metrics_data[k].labels = all_metrics[k].labels
              /\ metrics_data[k].help_text = all_metrics[k].help_text
              /\ fromisoformat(metrics_data[k].timestamp) = all_metrics[k].timestamp

\* a snapshot of two metrics read back: the first with a quote and a
\* backslash in its label values, the second with a line break in its label
\* value and 50 microseconds in its timestamp
C18_Witness ==
    /\ StoredAndLoaded
    /\ Len(metrics_data) = 2
    /\ metrics_data[1].labels = <<Label(<<"s">>, <<"\"">>), Label(<<"t">>, <<"\\">>)>>
    /\ metrics_data[2].labels = <<Label(<<"s">>, <<"\n">>)>>
    /\ all_metrics[2].timestamp = DateTime(0, 50)

====
